---- MODULE Spec2Model ----
(***************************************************************************)
(* Model of pykka.registry.ActorRegistry: the process-wide list of actor   *)
(* references, its RLock, and the operations register, unregister,         *)
(* get_all, get_by_class, get_by_class_name, get_by_urn, broadcast and     *)
(* stop_all, each executed step by step by concurrent caller threads.      *)
(***************************************************************************)
EXTENDS Integers, Sequences, FiniteSets, TLC

\* ------------------------------------------------------------------ bounds
NumThreads == 2
NumRefs == 3
MaxCalls == 2

Threads == 1..NumThreads
Refs == 1..NumRefs
NoThread == 0
None == 0

\* ------------------------------------------- actor references (attributes)
\* Class objects: 1 = Actor, 2 = Worker(Actor), 3 = Helper(Worker),
\* 4 = a second class whose __name__ is also "Worker", derived from Actor.
\* 0 stands for the root ``object``.
Classes == 1..4
ClassParent(c) == CASE c = 1 -> 0 [] c = 2 -> 1 [] c = 3 -> 2 [] c = 4 -> 1 [] OTHER -> 0
ClassName(c) == CASE c = 1 -> "Actor" [] c = 2 -> "Worker" [] c = 3 -> "Helper"
                  [] c = 4 -> "Worker" [] OTHER -> "object"
ClassNames == {"Actor", "Worker", "Helper"}

\* ref.actor_class and ref.actor_urn, fixed for the reference's lifetime.
\* References 1 and 2 share a URN (the pathological case of get_by_urn).
ActorClassOf(r) == (r % 4) + 1
ActorUrnOf(r) == (r + 1) \div 2
Urns == 1..(ActorUrnOf(NumRefs) + 1)

Messages == {1}
Timeouts == {None, 1}

\* (block, timeout) of stop_all; a timeout only matters to a blocking stop
StopAllArgs == {<<b, to>> \in BOOLEAN \X Timeouts : b \/ to = None}

\* --------------------------------------------------------- list primitives
RECURSIVE Reversed(_)
Reversed(s) == IF s = <<>> THEN <<>> ELSE Append(Reversed(Tail(s)), Head(s))

Range(s) == {s[i] : i \in 1..Len(s)}

Count(s, r) == Cardinality({i \in 1..Len(s) : s[i] = r})

\* variant: the reference is put in front
ListPrepend(s, r) == <<r>> \o s

\* variant: the reference is inserted twice
ListAppendTwice(s, r) == s \o <<r, r>>

\* list.append
ListAppend(s, r) == Append(s, r)

\* variant: the membership test is skipped
InListAlways(s, r) == TRUE

\* ``x in list``
InList(s, r) == \E i \in 1..Len(s) : s[i] = r

\* variant: the last occurrence is dropped
ListRemoveLast(s, r) ==
    IF \E i \in 1..Len(s) : s[i] = r
    THEN LET k == CHOOSE i \in 1..Len(s) : s[i] = r /\ \A j \in (i + 1)..Len(s) : s[j] # r
         IN [ok |-> TRUE, list |-> SubSeq(s, 1, k - 1) \o SubSeq(s, k + 1, Len(s))]
    ELSE [ok |-> FALSE, list |-> s]

\* variant: the list is left as it is
ListRemoveKeeps(s, r) == [ok |-> \E i \in 1..Len(s) : s[i] = r, list |-> s]

\* list.remove: drops the first occurrence; ValueError (ok = FALSE) if absent
ListRemove(s, r) ==
    IF \E i \in 1..Len(s) : s[i] = r
    THEN LET k == CHOOSE i \in 1..Len(s) : s[i] = r /\ \A j \in 1..(i - 1) : s[j] # r
         IN [ok |-> TRUE, list |-> SubSeq(s, 1, k - 1) \o SubSeq(s, k + 1, Len(s))]
    ELSE [ok |-> FALSE, list |-> s]

\* issubclass(a, b): b occurs in the method resolution order of a
RECURSIVE Mro(_)
Mro(c) == IF c = 0 THEN <<0>> ELSE <<c>> \o Mro(ClassParent(c))

issubclass(a, b) == InList(Mro(a), b)

\* ------------------------------------------------------------- the queries
\* variant: the copy loses the first entry
get_all_tail(refs) == SubSeq(refs, 2, Len(refs))

get_all(refs) == SubSeq(refs, 1, Len(refs))

\* variant: only the class itself matches
ClassMatchesExactly(r, actor_class) == ActorClassOf(r) = actor_class

ClassMatches(r, actor_class) == issubclass(ActorClassOf(r), actor_class)

get_by_class(refs, actor_class) ==
    SelectSeq(refs, LAMBDA r : ClassMatches(r, actor_class))

\* variant: the name of any class of the hierarchy matches
NameMatchesInherited(r, actor_class_name) ==
    \E i \in 1..Len(Mro(ActorClassOf(r))) : ClassName(Mro(ActorClassOf(r))[i]) = actor_class_name

NameMatches(r, actor_class_name) == ClassName(ActorClassOf(r)) = actor_class_name

get_by_class_name(refs, actor_class_name) ==
    SelectSeq(refs, LAMBDA r : NameMatches(r, actor_class_name))

\* variant: the last match is returned
get_by_urn_last(refs, actor_urn) ==
    LET found == SelectSeq(refs, LAMBDA r : ActorUrnOf(r) = actor_urn)
    IN IF found # <<>> THEN found[Len(found)] ELSE None

get_by_urn(refs, actor_urn) ==
    LET found == SelectSeq(refs, LAMBDA r : ActorUrnOf(r) = actor_urn)
    IN IF found # <<>> THEN found[1] ELSE None

\* target_class of broadcast: absent, a class-name string, or a class object
TargetClasses ==
    {[kind |-> "none", cls |-> 0, name |-> ""]}
    \cup {[kind |-> "str", cls |-> 0, name |-> n] : n \in ClassNames}
    \cup {[kind |-> "type", cls |-> c, name |-> ""] : c \in Classes}

\* variant: target_class is ignored
BroadcastTargetsAll(refs, target_class) == get_all(refs)

\* broadcast: the if / elif / else that resolves the targets
BroadcastTargets(refs, target_class) ==
    IF target_class.kind = "str" THEN get_by_class_name(refs, target_class.name)
    ELSE IF target_class.kind # "none" THEN get_by_class(refs, target_class.cls)
    ELSE get_all(refs)

\* ------------------------------------------------------------------- state
VARIABLES
    actor_refs,   \* ActorRegistry._actor_refs
    lock,         \* ActorRegistry._actor_refs_lock: [owner, count]
    actor,        \* per reference: "alive", "stopping" (stop pending), "dead"
    pc,           \* per thread: position in the operation it executes
    op,           \* per thread: the operation
    args,         \* per thread: the arguments of the call
    targets,      \* per thread: local list (targets / the returned list)
    ret,          \* per thread: the reference returned by get_by_urn
    removed,      \* per thread: local ``removed`` of unregister
    idx,          \* per thread: position of the for loop / comprehension
    results,      \* per thread: the list built by stop_all
    exc,          \* per thread: the exception that left the method, if one did
    calls,        \* number of calls issued so far
    seen,         \* history: _actor_refs when the thread read it under the lock
    left,         \* history: _actor_refs when the thread left the with block
                  \* of unregister
    prev,         \* history: during an unregister call, the unregister call
                  \* the thread made just before it, if it did
    told,         \* history: the tell(message) calls made by the broadcast, with outcome
    stops,        \* history: the references stop() was called on by stop_all
    failure,      \* history: the exception a ref.stop() of stop_all raised
    net,          \* history: per reference, registers returned - removals reported
    reglog,       \* history: the registrations in the order they took place, each
                  \* with whether its entry is still tracked
    misuse        \* history: register was called on a tracked reference

vars == <<actor_refs, lock, actor, pc, op, args, targets, ret, removed, idx,
          results, exc, calls, seen, left, prev, told, stops, failure, net, reglog,
          misuse>>

NoArgs == [actor_ref |-> None, target_class |-> [kind |-> "none", cls |-> 0, name |-> ""],
           actor_class |-> 0, actor_class_name |-> "", actor_urn |-> 0,
           message |-> 0, block |-> FALSE, timeout |-> None]

NoError == [kind |-> "none", ref |-> None]

NoCall == [op |-> "none", actor_ref |-> None, seen |-> <<>>, left |-> <<>>]

\* registries a program has built by starting its first n actors in turn
StartedSeqs == {[i \in 1..n |-> i] : n \in 0..NumRefs}

Init ==
    /\ actor_refs \in StartedSeqs
    /\ lock = [owner |-> NoThread, count |-> 0]
    /\ actor = [r \in Refs |-> "alive"]
    /\ pc = [t \in Threads |-> "idle"]
    /\ op = [t \in Threads |-> "none"]
    /\ args = [t \in Threads |-> NoArgs]
    /\ targets = [t \in Threads |-> <<>>]
    /\ ret = [t \in Threads |-> None]
    /\ removed = [t \in Threads |-> FALSE]
    /\ idx = [t \in Threads |-> 1]
    /\ results = [t \in Threads |-> <<>>]
    /\ exc = [t \in Threads |-> NoError]
    /\ failure = [t \in Threads |-> NoError]
    /\ calls = 0
    /\ seen = [t \in Threads |-> <<>>]
    /\ left = [t \in Threads |-> <<>>]
    /\ prev = [t \in Threads |-> NoCall]
    /\ told = [t \in Threads |-> <<>>]
    /\ stops = [t \in Threads |-> <<>>]
    /\ net = [r \in Refs |-> Count(actor_refs, r)]
    /\ reglog = [i \in 1..Len(actor_refs) |-> [ref |-> actor_refs[i], tracked |-> TRUE]]
    /\ misuse = FALSE


\* ------------------------------------------------------ registration history
\* a registration of r took place
Registered(log, r) == Append(log, [ref |-> r, tracked |-> TRUE])

\* the oldest registration of r that is still tracked has been removed
Unregistered(log, r) ==
    IF \E i \in 1..Len(log) : log[i].ref = r /\ log[i].tracked
    THEN LET k == CHOOSE i \in 1..Len(log) :
                      /\ log[i].ref = r /\ log[i].tracked
                      /\ \A j \in 1..(i - 1) : ~(log[j].ref = r /\ log[j].tracked)
         IN [log EXCEPT ![k].tracked = FALSE]
    ELSE log

\* ------------------------------------------------------------ the RLock
\* variant: the lock excludes nobody
CanAcquireUnlocked(l, t) == TRUE

\* RLock.acquire succeeds when the lock is free or already owned by t
CanAcquire(l, t) == l.owner = NoThread \/ l.owner = t

\* variant: the lock is entered twice, as by a caller that already holds it
AcquiredTwice(l, t) == [owner |-> t, count |-> l.count + 2]

Acquired(l, t) == [owner |-> t, count |-> l.count + 1]

\* variant: the lock is kept
ReleasedNot(l) == l

Released(l) == IF l.count = 1 THEN [owner |-> NoThread, count |-> 0]
               ELSE [owner |-> l.owner, count |-> l.count - 1]

\* ------------------------------------------------------ calls by a thread
\* A thread that is idle, or back from its previous call, calls a method
\* with fresh locals and enters its ``with cls._actor_refs_lock:`` block (every
\* method begins with it; broadcast and stop_all begin with the query they
\* call). The with block is left, and the lock released, by the last step of
\* its body. Free threads do not differ: the next call is made by the first
\* of them.
Free(t) == pc[t] \in {"idle", "done"}

StartCall(t, o, a) ==
    /\ Free(t)
    /\ \A u \in Threads : u < t => ~Free(u)
    /\ calls < MaxCalls
    /\ CanAcquire(lock, t)
    /\ lock' = Acquired(lock, t)
    /\ calls' = calls + 1
    /\ op' = [op EXCEPT ![t] = o]
    /\ args' = [args EXCEPT ![t] = a]
    /\ pc' = [pc EXCEPT ![t] = "locked"]
    /\ targets' = [targets EXCEPT ![t] = <<>>]
    /\ ret' = [ret EXCEPT ![t] = None]
    /\ removed' = [removed EXCEPT ![t] = FALSE]
    /\ idx' = [idx EXCEPT ![t] = 1]
    /\ results' = [results EXCEPT ![t] = <<>>]
    /\ exc' = [exc EXCEPT ![t] = NoError]
    /\ failure' = [failure EXCEPT ![t] = NoError]
    /\ seen' = [seen EXCEPT ![t] = <<>>]
    /\ left' = [left EXCEPT ![t] = <<>>]
    /\ prev' = [prev EXCEPT ![t] = IF o = "unregister" /\ op[t] = "unregister"
                                     THEN [op |-> op[t], actor_ref |-> args[t].actor_ref,
                                           seen |-> seen[t], left |-> left[t]]
                                     ELSE NoCall]
    /\ told' = [told EXCEPT ![t] = <<>>]
    /\ stops' = [stops EXCEPT ![t] = <<>>]
    /\ UNCHANGED <<actor_refs, actor, net, reglog>>

RegisterInFlight(r) ==
    \E u \in Threads : pc[u] = "locked" /\ op[u] = "register" /\ args[u].actor_ref = r

CallRegister(t, r) ==
    /\ StartCall(t, "register", [NoArgs EXCEPT !.actor_ref = r])
    /\ misuse' = (misuse \/ Count(actor_refs, r) > 0 \/ RegisterInFlight(r))

CallUnregister(t, r) ==
    /\ StartCall(t, "unregister", [NoArgs EXCEPT !.actor_ref = r])
    /\ UNCHANGED misuse

CallGetAll(t) ==
    /\ StartCall(t, "get_all", NoArgs)
    /\ UNCHANGED misuse

CallGetByClass(t, c) ==
    /\ StartCall(t, "get_by_class", [NoArgs EXCEPT !.actor_class = c])
    /\ UNCHANGED misuse

CallGetByClassName(t, n) ==
    /\ StartCall(t, "get_by_class_name", [NoArgs EXCEPT !.actor_class_name = n])
    /\ UNCHANGED misuse

CallGetByUrn(t, u) ==
    /\ StartCall(t, "get_by_urn", [NoArgs EXCEPT !.actor_urn = u])
    /\ UNCHANGED misuse

CallBroadcast(t, m, tc) ==
    /\ StartCall(t, "broadcast", [NoArgs EXCEPT !.message = m, !.target_class = tc])
    /\ UNCHANGED misuse

CallStopAll(t, b, to) ==
    /\ StartCall(t, "stop_all", [NoArgs EXCEPT !.block = b, !.timeout = to])
    /\ UNCHANGED misuse

\* register: cls._actor_refs.append(actor_ref), then the logging
RegisterAppend(t) ==
    /\ pc[t] = "locked" /\ op[t] = "register"
    /\ actor_refs' = ListAppend(actor_refs, args[t].actor_ref)
    /\ lock' = Released(lock)
    /\ pc' = [pc EXCEPT ![t] = "done"]
    /\ net' = [net EXCEPT ![args[t].actor_ref] = @ + 1]
    /\ reglog' = Registered(reglog, args[t].actor_ref)
    /\ UNCHANGED <<actor, op, args, targets, ret, removed, idx, results,
                   calls, seen, told, stops, misuse, left, prev, exc, failure>>

\* unregister: ``if actor_ref in cls._actor_refs:``
UnregisterCheck(t) ==
    /\ pc[t] = "locked" /\ op[t] = "unregister"
    /\ IF InList(actor_refs, args[t].actor_ref)
       THEN /\ pc' = [pc EXCEPT ![t] = "remove"]
            /\ lock' = lock
            /\ left' = left
       ELSE /\ pc' = [pc EXCEPT ![t] = "done"]
            /\ lock' = Released(lock)
            /\ left' = [left EXCEPT ![t] = actor_refs]
    /\ seen' = [seen EXCEPT ![t] = actor_refs]
    /\ UNCHANGED <<actor_refs, actor, op, args, targets, ret, removed, idx,
                   results, calls, told, stops, net, reglog, misuse, prev, exc, failure>>

\* unregister: cls._actor_refs.remove(actor_ref); removed = True, then the
\* logging. A ValueError of list.remove leaves the with block and the call.
UnregisterRemove(t) ==
    /\ pc[t] = "remove"
    /\ LET rm == ListRemove(actor_refs, args[t].actor_ref)
       IN IF rm.ok
          THEN /\ actor_refs' = rm.list
               /\ removed' = [removed EXCEPT ![t] = TRUE]
               /\ pc' = [pc EXCEPT ![t] = "done"]
               /\ net' = [net EXCEPT ![args[t].actor_ref] = @ - 1]
               /\ reglog' = Unregistered(reglog, args[t].actor_ref)
          ELSE /\ pc' = [pc EXCEPT ![t] = "raised"]
               /\ UNCHANGED <<actor_refs, removed, net, reglog>>
    /\ exc' = [exc EXCEPT ![t] = IF ListRemove(actor_refs, args[t].actor_ref).ok THEN NoError
                                   ELSE [kind |-> "ValueError", ref |-> args[t].actor_ref]]
    /\ lock' = Released(lock)
    /\ left' = [left EXCEPT ![t] = actor_refs']
    /\ UNCHANGED <<actor, op, args, targets, ret, idx, results, calls, seen, told,
                   stops, misuse, prev, failure>>

\* variant: the loop ends before its last item
LoopPcShort(i, n) == IF i >= n THEN "done" ELSE "after"

\* where a loop over n items stands before item i: inside, or past its end
\* (the method returns)
LoopPc(i, n) == IF i > n THEN "done" ELSE "after"

\* variant: reading empties the list
ListReadEmptied(refs) == <<>>

\* _actor_refs after a query has read it: the slice and the list
\* comprehensions build a new list and leave _actor_refs as it is
ListRead(refs) == refs

\* the list a query builds while it holds the lock
QueryResult(o, a, refs) ==
    CASE o = "get_all" -> get_all(refs)
      [] o = "get_by_class" -> get_by_class(refs, a.actor_class)
      [] o = "get_by_class_name" -> get_by_class_name(refs, a.actor_class_name)
      [] o = "broadcast" -> BroadcastTargets(refs, a.target_class)
      [] o = "stop_all" -> get_all(refs)
      [] OTHER -> <<>>

\* get_all / get_by_class / get_by_class_name, called directly or by
\* broadcast and stop_all: the body of the with block
Query(t) ==
    /\ pc[t] = "locked"
    /\ op[t] \in {"get_all", "get_by_class", "get_by_class_name", "broadcast", "stop_all"}
    /\ targets' = [targets EXCEPT ![t] = QueryResult(op[t], args[t], actor_refs)]
    /\ seen' = [seen EXCEPT ![t] = actor_refs]
    /\ lock' = Released(lock)
    /\ pc' = [pc EXCEPT ![t] = IF op[t] \in {"broadcast", "stop_all"}
                                 THEN LoopPc(1, Len(QueryResult(op[t], args[t], actor_refs)))
                                 ELSE "done"]
    /\ actor_refs' = ListRead(actor_refs)
    /\ UNCHANGED <<actor, op, args, ret, removed, idx, results,
                   calls, told, stops, net, reglog, misuse, left, prev, exc, failure>>

\* get_by_urn: the body of the with block
QueryUrn(t) ==
    /\ pc[t] = "locked" /\ op[t] = "get_by_urn"
    /\ ret' = [ret EXCEPT ![t] = get_by_urn(actor_refs, args[t].actor_urn)]
    /\ seen' = [seen EXCEPT ![t] = actor_refs]
    /\ lock' = Released(lock)
    /\ pc' = [pc EXCEPT ![t] = "done"]
    /\ actor_refs' = ListRead(actor_refs)
    /\ UNCHANGED <<actor, op, args, targets, removed, idx, results,
                   calls, told, stops, net, reglog, misuse, left, prev, exc, failure>>

\* ------------------------------------------- the actor reference (boundary)
\* ref.tell(message) delivers unless the actor is dead (ActorDeadError)
TellDelivers(state) == state # "dead"

\* ref.stop(block, timeout) cannot be requested of a dead actor
StopAccepted(state) == state # "dead"

\* what ref.stop raises: ActorDeadError on a dead actor, Timeout when a
\* blocking stop gives up
StopRefused(r) == [kind |-> "ActorDeadError", ref |-> r]
StopGaveUp(r) == [kind |-> "Timeout", ref |-> r]

\* what a blocking stop returns, and the future a non-blocking stop returns
StopOutcome(r) == [kind |-> "stopped", ref |-> r]
StopFuture(r) == [kind |-> "future", ref |-> r]

\* ---------------------------------------------------------------- broadcast
\* variant: the thread works on the live list, not on a copy
TargetsLive(t) == QueryResult(op[t], args[t], actor_refs)

\* the local list ``targets`` the for loop of broadcast iterates over, and
\* the list stop_all reverses
Targets(t) == targets[t]

\* variant: the exception is swallowed and the loop goes on
OnTellErrorSwallowed(i, n) == [pc |-> LoopPc(i + 1, n), idx |-> i + 1]

\* an exception of ref.tell, raised at item i of n, leaves the for loop and
\* broadcast
OnTellError(i, n) == [pc |-> "raised", idx |-> i]

\* ``for ref in targets: ref.tell(message)``, one iteration; past the last
\* item broadcast returns
Tell(t) ==
    /\ pc[t] = "after" /\ op[t] = "broadcast"
    /\ idx[t] <= Len(Targets(t))
    /\ LET ref == Targets(t)[idx[t]]
           nxt == IF TellDelivers(actor[ref])
                  THEN [pc |-> LoopPc(idx[t] + 1, Len(Targets(t))), idx |-> idx[t] + 1]
                  ELSE OnTellError(idx[t], Len(Targets(t)))
       IN /\ told' = [told EXCEPT ![t] = Append(@, [ref |-> ref, message |-> args[t].message,
                                                     ok |-> TellDelivers(actor[ref])])]
          /\ pc' = [pc EXCEPT ![t] = nxt.pc]
          /\ idx' = [idx EXCEPT ![t] = nxt.idx]
          /\ exc' = [exc EXCEPT ![t] = IF nxt.pc = "raised"
                                         THEN [kind |-> "ActorDeadError", ref |-> ref]
                                         ELSE NoError]
    /\ UNCHANGED <<actor_refs, lock, actor, op, args, targets, ret, removed, results,
                   calls, seen, stops, net, reglog, misuse, left, prev, failure>>

\* ----------------------------------------------------------------- stop_all
\* variant: the list is walked in registration order
StopOrderForward(ts) == ts

\* ``reversed(cls.get_all())``
StopOrder(ts) == Reversed(ts)

\* variant: every stop is waited for
StopWaitsAlways(block) == TRUE

\* ``block`` is handed on to ref.stop: the call waits for the actor to stop
\* only if it is true
StopWaits(block) == block

\* variant: the exception is dropped and stop_all returns what it has
OnStopErrorSwallowed(e) == [pc |-> "done", exc |-> NoError]

\* an exception of ref.stop leaves the list comprehension and stop_all as it is
OnStopError(e) == [pc |-> "raised", exc |-> e]

\* ``ref.stop(block, timeout)`` is called on the next reference; past the
\* last one stop_all returns the list
StopCall(t) ==
    /\ pc[t] = "after" /\ op[t] = "stop_all"
    /\ idx[t] <= Len(Targets(t))
    /\ LET ref == StopOrder(Targets(t))[idx[t]]
       IN /\ stops' = [stops EXCEPT ![t] = Append(@, ref)]
          /\ IF ~StopAccepted(actor[ref])
             THEN /\ failure' = [failure EXCEPT ![t] = StopRefused(ref)]
                  /\ pc' = [pc EXCEPT ![t] = OnStopError(StopRefused(ref)).pc]
                  /\ exc' = [exc EXCEPT ![t] = OnStopError(StopRefused(ref)).exc]
                  /\ UNCHANGED <<actor, results, idx>>
             ELSE /\ actor' = [actor EXCEPT ![ref] = "stopping"]
                  /\ UNCHANGED <<exc, failure>>
                  /\ IF StopWaits(args[t].block)
                     THEN /\ pc' = [pc EXCEPT ![t] = "stop_wait"]
                          /\ UNCHANGED <<results, idx>>
                     ELSE /\ results' = [results EXCEPT ![t] = Append(@, StopFuture(ref))]
                          /\ idx' = [idx EXCEPT ![t] = @ + 1]
                          /\ pc' = [pc EXCEPT ![t] = LoopPc(idx[t] + 1, Len(Targets(t)))]
    /\ UNCHANGED <<actor_refs, lock, op, args, targets, ret, removed, calls, seen,
                   told, net, reglog, misuse, left, prev>>

\* the blocking ``ref.stop`` returns once the actor has stopped
StopCompleted(t) ==
    /\ pc[t] = "stop_wait"
    /\ LET ref == StopOrder(Targets(t))[idx[t]]
       IN /\ actor[ref] = "dead"
          /\ results' = [results EXCEPT ![t] = Append(@, StopOutcome(ref))]
    /\ idx' = [idx EXCEPT ![t] = @ + 1]
    /\ pc' = [pc EXCEPT ![t] = LoopPc(idx[t] + 1, Len(Targets(t)))]
    /\ UNCHANGED <<actor_refs, lock, actor, op, args, targets, ret, removed, calls,
                   seen, told, stops, net, reglog, misuse, left, prev, exc, failure>>

\* the blocking ``ref.stop`` gives up after ``timeout``: Timeout is raised
StopTimedOut(t) ==
    /\ pc[t] = "stop_wait"
    /\ args[t].timeout # None
    /\ actor[StopOrder(Targets(t))[idx[t]]] # "dead"
    /\ LET e == StopGaveUp(StopOrder(Targets(t))[idx[t]])
       IN /\ failure' = [failure EXCEPT ![t] = e]
          /\ pc' = [pc EXCEPT ![t] = OnStopError(e).pc]
          /\ exc' = [exc EXCEPT ![t] = OnStopError(e).exc]
    /\ UNCHANGED <<actor_refs, lock, actor, op, args, targets, ret, removed, idx,
                   results, calls, seen, told, stops, net, reglog, misuse, left, prev>>

\* ------------------------------------------------- the actor (collaborator)
\* An actor asked to stop unregisters itself and terminates.
ActorStop(r) ==
    /\ actor[r] = "stopping"
    /\ lock.owner = NoThread
    /\ LET rm == ListRemove(actor_refs, r)
       IN /\ actor_refs' = rm.list
          /\ net' = IF rm.ok THEN [net EXCEPT ![r] = @ - 1] ELSE net
          /\ reglog' = IF rm.ok THEN Unregistered(reglog, r) ELSE reglog
    /\ actor' = [actor EXCEPT ![r] = "dead"]
    /\ UNCHANGED <<lock, pc, op, args, targets, ret, removed, idx, results, calls,
                   seen, told, stops, misuse, left, prev, exc, failure>>

\* Somebody calls ref.stop() on the reference directly, not through the
\* registry.
RefStop(r) ==
    /\ actor[r] = "alive"
    /\ calls < MaxCalls
    /\ calls' = calls + 1
    /\ actor' = [actor EXCEPT ![r] = "stopping"]
    /\ UNCHANGED <<actor_refs, lock, pc, op, args, targets, ret, removed, idx, results,
                   seen, told, stops, net, reglog, misuse, left, prev, exc, failure>>

\* ------------------------------------------------------------ specification
\* register and unregister, by any thread, and what all methods share
Core ==
    \/ \E t \in Threads, r \in Refs : CallRegister(t, r)
    \/ \E t \in Threads, r \in Refs : CallUnregister(t, r)
    \/ \E t \in Threads : RegisterAppend(t)
    \/ \E t \in Threads : UnregisterCheck(t)
    \/ \E t \in Threads : UnregisterRemove(t)
    \/ \E t \in Threads : Query(t)

Queries ==
    \/ \E t \in Threads, c \in Classes : CallGetByClass(t, c)
    \/ \E t \in Threads, n \in ClassNames : CallGetByClassName(t, n)
    \/ \E t \in Threads, u \in Urns : CallGetByUrn(t, u)
    \/ \E t \in Threads : QueryUrn(t)

Broadcasts ==
    \/ \E t \in Threads, m \in Messages, tc \in TargetClasses : CallBroadcast(t, m, tc)
    \/ \E t \in Threads : Tell(t)
    \/ \E r \in Refs : RefStop(r)

Shutdowns ==
    \/ \E t \in Threads, a \in StopAllArgs : CallStopAll(t, a[1], a[2])
    \/ \E t \in Threads : StopCall(t)
    \/ \E t \in Threads : StopCompleted(t)
    \/ \E t \in Threads : StopTimedOut(t)

\* the whole registry
Next ==
    \/ Core
    \/ \E t \in Threads : CallGetAll(t)
    \/ Queries
    \/ Broadcasts
    \/ Shutdowns
    \/ \E r \in Refs : ActorStop(r)

Spec == Init /\ [][Next]_vars

\* register, unregister and get_all only
NextRegistry ==
    \/ Core
    \/ \E t \in Threads : CallGetAll(t)

SpecRegistry == Init /\ [][NextRegistry]_vars

\* register, unregister and the four queries
NextQuery ==
    \/ Core
    \/ \E t \in Threads : CallGetAll(t)
    \/ Queries

SpecQuery == Init /\ [][NextQuery]_vars

\* register, unregister and broadcast, with actors stopping meanwhile
NextBroadcast ==
    \/ Core
    \/ \E t \in Threads : CallGetAll(t)
    \/ Broadcasts
    \/ \E r \in Refs : ActorStop(r)

SpecBroadcast == Init /\ [][NextBroadcast]_vars

\* register, unregister and stop_all
NextStop ==
    \/ Core
    \/ Shutdowns
    \/ \E r \in Refs : ActorStop(r)

SpecStop == Init /\ [][NextStop]_vars

\* broadcast to every reference and stop_all: the calls the registry makes
\* on the references
NextCalls ==
    \/ \E t \in Threads : Query(t)
    \/ \E t \in Threads, m \in Messages : CallBroadcast(t, m, NoArgs.target_class)
    \/ \E t \in Threads : Tell(t)
    \/ Shutdowns
    \/ \E r \in Refs : ActorStop(r)

SpecCalls == Init /\ [][NextCalls]_vars

\* register, unregister and stop_all(block=True) without timeout, with threads and actors that
\* keep running: a thread inside a method takes its next step, an actor asked
\* to stop does stop. Calls need not be made.
NextShutdown ==
    \/ \E t \in Threads : CallStopAll(t, TRUE, None)
    \/ Core
    \/ \E t \in Threads : StopCall(t)
    \/ \E t \in Threads : StopCompleted(t)
    \/ \E r \in Refs : ActorStop(r)

SpecShutdownFair ==
    /\ Init /\ [][NextShutdown]_vars
    /\ \A t \in Threads : WF_vars(Query(t))
    /\ \A t \in Threads : WF_vars(RegisterAppend(t))
    /\ \A t \in Threads : WF_vars(UnregisterCheck(t))
    /\ \A t \in Threads : WF_vars(UnregisterRemove(t))
    /\ \A t \in Threads : WF_vars(StopCall(t))
    /\ \A t \in Threads : WF_vars(StopCompleted(t))
    /\ \A r \in Refs : WF_vars(ActorStop(r))

\* every method, with broadcast to every reference and stop_all(block=True)
\* without timeout
NextFrame ==
    \/ Core
    \/ \E t \in Threads : CallGetAll(t)
    \/ Queries
    \/ \E t \in Threads, m \in Messages : CallBroadcast(t, m, NoArgs.target_class)
    \/ \E t \in Threads : Tell(t)
    \/ \E t \in Threads : CallStopAll(t, TRUE, None)
    \/ \E t \in Threads : StopCall(t)
    \/ \E t \in Threads : StopCompleted(t)
    \/ \E r \in Refs : ActorStop(r)

SpecFrame == Init /\ [][NextFrame]_vars

TypeOK ==
    /\ actor_refs \in Seq(Refs)
    /\ lock.owner \in Threads \cup {NoThread}
    /\ lock.count \in 0..1
    /\ \A r \in Refs : actor[r] \in {"alive", "stopping", "dead"}
    /\ \A t \in Threads :
        pc[t] \in {"idle", "locked", "remove", "after", "stop_wait",
                   "done", "raised"}


\* =================================================================== claims
Quiescent == \A t \in Threads : pc[t] \in {"idle", "done", "raised"}

NoDuplicates(s) == \A i, j \in 1..Len(s) : i # j => s[i] # s[j]

C4_Original == NoDuplicates(actor_refs)

\* C4 (amended): _actor_refs contains no reference more than once as long as
\* register was never called on a reference that was tracked or being
\* registered at that moment.
C4_NoDuplicatesUnlessReRegistered == ~misuse => NoDuplicates(actor_refs)

C4_Witness ==
    /\ ~misuse
    /\ Len(actor_refs) >= 2
    /\ \E t \in Threads : pc[t] = "done" /\ op[t] = "register"
                          /\ actor_refs[Len(actor_refs)] = args[t].actor_ref

\* C7: unregister(ref) on a reference that is not in _actor_refs leaves the
\* list as it is and ends normally, with removed = False.
C7_UnregisterAbsent ==
    [][\A t \in Threads :
          (/\ op[t] = "unregister" /\ pc[t] = "locked" /\ pc'[t] # "locked"
           /\ Count(actor_refs, args[t].actor_ref) = 0)
          => /\ actor_refs' = actor_refs
             /\ pc'[t] = "done"
             /\ ~removed'[t]]_vars

C7_Witness ==
    \E t \in Threads :
        /\ op[t] = "unregister" /\ pc[t] = "done"
        /\ seen[t] # <<>>
        /\ Count(seen[t], args[t].actor_ref) = 0
        /\ ~removed[t]


\* the i-th entry, counted from the end, of the list the thread read
FromEnd(s, i) == s[Len(s) + 1 - i]

\* C2: stop_all(block=True) stops in strict reverse registration order. The
\* references stop was called on are, in order, the last entries of the list
\* read at the start; when stop is called on one, the actors of all those
\* before it have stopped and their outcomes are collected; the returned
\* list holds the outcomes in that same reverse order.
C2_ReverseOrderBlocking ==
    \A t \in Threads :
        (op[t] = "stop_all" /\ args[t].block) =>
            /\ Len(stops[t]) <= Len(seen[t])
            /\ \A i \in 1..Len(stops[t]) : stops[t][i] = FromEnd(seen[t], i)
            /\ \A i \in 1..(Len(stops[t]) - 1) :
                   /\ actor[stops[t][i]] = "dead"
                   /\ results[t][i] = StopOutcome(stops[t][i])
            /\ pc[t] = "done" =>
                   /\ Len(results[t]) = Len(seen[t])
                   /\ \A i \in 1..Len(seen[t]) : results[t][i] = StopOutcome(FromEnd(seen[t], i))

C2_Witness ==
    \E t \in Threads :
        /\ op[t] = "stop_all" /\ args[t].block /\ pc[t] = "done"
        /\ Len(seen[t]) = 3
        /\ results[t] = <<StopOutcome(seen[t][3]), StopOutcome(seen[t][2]), StopOutcome(seen[t][1])>>

\* C3: broadcast(message) without target_class calls tell(message) on the
\* references that were registered when it read the list, in registration
\* order, each entry once and no other reference; when it returns, it has
\* called tell on all of them.
C3_BroadcastAll ==
    \A t \in Threads :
        (op[t] = "broadcast" /\ args[t].target_class.kind = "none") =>
            /\ Len(told[t]) <= Len(seen[t])
            /\ \A i \in 1..Len(told[t]) :
                   told[t][i].ref = seen[t][i] /\ told[t][i].message = args[t].message
            /\ pc[t] = "done" => Len(told[t]) = Len(seen[t])

C3_Witness ==
    \E t \in Threads :
        /\ op[t] = "broadcast" /\ args[t].target_class.kind = "none" /\ pc[t] = "done"
        /\ Len(seen[t]) = 3
        /\ \A i \in 1..3 : told[t][i].ref = seen[t][i] /\ told[t][i].ok

\* C5 (as stated): broadcast never fails as a whole when a tell fails; every
\* other resolved target still receives the message and broadcast returns
\* normally.
C5_Original ==
    \A t \in Threads :
        (op[t] = "broadcast" /\ pc[t] \in {"done", "raised"}) =>
            /\ pc[t] = "done"
            /\ Len(told[t]) = Len(targets[t])

\* C5 (amended): a failing tell ends the broadcast with that failure. The
\* targets before the failing one have been told, those after it are not
\* told; broadcast returns normally exactly when no tell failed, and then
\* tell was called on every resolved target.
C5_TellFailurePropagates ==
    \A t \in Threads :
        op[t] = "broadcast" =>
            /\ \A i \in 1..(Len(told[t]) - 1) : told[t][i].ok
            /\ (Len(told[t]) > 0 /\ ~told[t][Len(told[t])].ok) <=> pc[t] = "raised"
            /\ pc[t] = "raised" => Len(told[t]) = idx[t]
            /\ pc[t] = "done" => Len(told[t]) = Len(targets[t])

C5_Witness ==
    \E t \in Threads :
        /\ op[t] = "broadcast" /\ pc[t] = "raised"
        /\ Len(told[t]) < Len(targets[t])
        /\ actor[targets[t][Len(targets[t])]] # "dead"

\* C6: a broadcast works on the snapshot it took. The references it tells
\* are, in order, the targets resolved from _actor_refs at the instant it
\* read the list, whatever register and unregister do to the list meanwhile;
\* and the list get_all() has returned stays what it was at that instant.
C6_SnapshotStable ==
    \A t \in Threads :
        /\ (op[t] = "broadcast" /\ pc[t] \in {"after", "done", "raised"}) =>
               LET snap == BroadcastTargets(seen[t], args[t].target_class)
               IN /\ Len(told[t]) <= Len(snap)
                  /\ \A i \in 1..Len(told[t]) : told[t][i].ref = snap[i]
                  /\ pc[t] = "done" => Len(told[t]) = Len(snap)
        /\ (op[t] = "get_all" /\ pc[t] \in {"after", "done"}) =>
               Targets(t) = seen[t]

C6_Witness ==
    \E t \in Threads :
        /\ op[t] = "broadcast" /\ pc[t] = "done"
        /\ Len(told[t]) >= 2
        /\ \E i \in 1..Len(told[t]) : Count(actor_refs, told[t][i].ref) = 0
        /\ \A r \in Refs : actor[r] = "alive"


\* the positions of s whose reference has URN u
UrnPositions(s, u) == {i \in 1..Len(s) : ActorUrnOf(s[i]) = u}

\* C8: get_by_urn(u) returns the earliest registered entry whose URN is u,
\* also when several entries share u, and None when no entry has URN u; it
\* never ends with an error.
C8_GetByUrnFirst ==
    \A t \in Threads :
        op[t] = "get_by_urn" =>
            /\ pc[t] # "raised"
            /\ pc[t] \in {"after", "done"} =>
                   LET at == UrnPositions(seen[t], args[t].actor_urn)
                   IN IF at = {} THEN ret[t] = None
                      ELSE \E i \in at : /\ ret[t] = seen[t][i]
                                         /\ \A j \in at : i <= j

C8_Witness ==
    \E t \in Threads :
        /\ op[t] = "get_by_urn" /\ pc[t] = "done"
        /\ Cardinality(UrnPositions(seen[t], args[t].actor_urn)) >= 2
        /\ ret[t] = seen[t][1]
        /\ ret[t] # seen[t][Len(seen[t])]

\* the n-th ancestor of class c
RECURSIVE Ancestor(_, _)
Ancestor(c, n) == IF n = 0 \/ c = 0 THEN c ELSE Ancestor(ClassParent(c), n - 1)

\* a is b or derives from b, directly or not
IsSubtype(a, b) == \E n \in 0..Cardinality(Classes) : Ancestor(a, n) = b

\* the positions of s whose reference has a class that is c or a subtype of c
SubtypePositions(s, c) == {i \in 1..Len(s) : IsSubtype(ActorClassOf(s[i]), c)}

\* C9: get_by_class(cls) returns exactly the tracked references whose class
\* is cls or a subtype of cls; so for every subtype S of cls, get_by_class(S)
\* on the same list is contained in it, and a reference of class Worker,
\* which extends Actor, is returned for Worker and for Actor.
C9_GetByClassSubtypes ==
    \A t \in Threads :
        (op[t] = "get_by_class" /\ pc[t] \in {"after", "done"}) =>
            /\ Range(targets[t]) = {seen[t][i] : i \in SubtypePositions(seen[t], args[t].actor_class)}
            /\ Len(targets[t]) = Cardinality(SubtypePositions(seen[t], args[t].actor_class))
            /\ \A S \in Classes :
                   IsSubtype(S, args[t].actor_class) =>
                       Range(get_by_class(seen[t], S)) \subseteq Range(targets[t])
            /\ \A r \in Range(seen[t]) :
                   (ActorClassOf(r) = 2 /\ args[t].actor_class \in {1, 2}) => r \in Range(targets[t])

C9_Witness ==
    \E t \in Threads :
        /\ op[t] = "get_by_class" /\ pc[t] = "done" /\ args[t].actor_class = 2
        /\ Len(seen[t]) = 3
        /\ Len(targets[t]) = 2
        /\ \E r \in Range(targets[t]) : ActorClassOf(r) = 3
        /\ \E r \in Range(targets[t]) : ActorClassOf(r) = 2

\* the positions of s whose reference has a class named n
NamePositions(s, n) == {i \in 1..Len(s) : ClassName(ActorClassOf(s[i])) = n}

\* C10: get_by_class_name(name) returns exactly the tracked references whose
\* class is named name; a reference whose class derives from a class of that
\* name but has another name is not returned.
C10_GetByClassNameExact ==
    \A t \in Threads :
        (op[t] = "get_by_class_name" /\ pc[t] \in {"after", "done"}) =>
            /\ Range(targets[t]) = {seen[t][i] : i \in NamePositions(seen[t], args[t].actor_class_name)}
            /\ Len(targets[t]) = Cardinality(NamePositions(seen[t], args[t].actor_class_name))
            /\ \A r \in Range(seen[t]) :
                   ClassName(ActorClassOf(r)) # args[t].actor_class_name => r \notin Range(targets[t])

C10_Witness ==
    \E t \in Threads :
        /\ op[t] = "get_by_class_name" /\ pc[t] = "done" /\ args[t].actor_class_name = "Worker"
        /\ targets[t] # <<>>
        /\ \E r \in Range(seen[t]) :
               /\ ActorClassOf(r) = 3
               /\ IsSubtype(ActorClassOf(r), 2)
               /\ r \notin Range(targets[t])

\* C11: stop_all(block=False) calls stop on the entries of the list read at
\* its start, last entry first, and never waits for an actor to stop: every
\* call hands back a future at once, which is collected in the order of the
\* calls; when stop_all returns, the list holds one future per entry of the
\* list read, in reverse registration order.
C11_NonBlockingOrder ==
    \A t \in Threads :
        (op[t] = "stop_all" /\ ~args[t].block) =>
            /\ pc[t] # "stop_wait"
            /\ Len(stops[t]) <= Len(seen[t])
            /\ \A i \in 1..Len(stops[t]) : stops[t][i] = FromEnd(seen[t], i)
            /\ Len(results[t]) = IF pc[t] = "raised" THEN Len(stops[t]) - 1 ELSE Len(stops[t])
            /\ \A i \in 1..Len(results[t]) : results[t][i] = StopFuture(stops[t][i])
            /\ pc[t] = "done" =>
                   /\ Len(results[t]) = Len(seen[t])
                   /\ \A i \in 1..Len(seen[t]) : results[t][i] = StopFuture(FromEnd(seen[t], i))

\* all three stops were requested and none of the actors has stopped yet
C11_Witness ==
    \E t \in Threads :
        /\ op[t] = "stop_all" /\ ~args[t].block /\ pc[t] = "done"
        /\ Len(seen[t]) = 3
        /\ results[t] = <<StopFuture(seen[t][3]), StopFuture(seen[t][2]), StopFuture(seen[t][1])>>
        /\ \A i \in 1..3 : actor[seen[t][i]] = "stopping"

\* the references whose registration is still tracked, oldest registration
\* first
TrackedInOrder(log) ==
    LET live == SelectSeq(log, LAMBDA e : e.tracked)
    IN [i \in 1..Len(live) |-> live[i].ref]

\* whether the query o with arguments a selects reference r
Selects(o, a, r) ==
    CASE o = "get_by_class" -> IsSubtype(ActorClassOf(r), a.actor_class)
      [] o = "get_by_class_name" -> ClassName(ActorClassOf(r)) = a.actor_class_name
      [] OTHER -> TRUE

\* the positions of list that o selects, and the one of them with k - 1
\* selected positions before it
SelectedPositions(o, a, list) == {i \in 1..Len(list) : Selects(o, a, list[i])}

NthSelected(o, a, list, k) ==
    CHOOSE i \in SelectedPositions(o, a, list) :
        Cardinality({j \in SelectedPositions(o, a, list) : j < i}) = k - 1

\* C12: the list is at every instant the tracked references in registration
\* order, oldest registration first, so that a newly registered reference is
\* last; and get_all, get_by_class and get_by_class_name return the references
\* they select from the list they read in the order of that list.
C12_RegistrationOrder ==
    /\ actor_refs = TrackedInOrder(reglog)
    /\ \A t \in Threads :
          (op[t] \in {"get_all", "get_by_class", "get_by_class_name"} /\ pc[t] = "done") =>
              /\ Len(targets[t]) = Cardinality(SelectedPositions(op[t], args[t], seen[t]))
              /\ \A k \in 1..Len(targets[t]) :
                     targets[t][k] = seen[t][NthSelected(op[t], args[t], seen[t], k)]

\* the last entry of the list read was registered by a call (no reference
\* was removed, and the list is not one of StartedSeqs); the query returned
\* it last, behind a reference registered before it
C12_Witness ==
    \E t \in Threads :
        /\ op[t] \in {"get_by_class", "get_by_class_name"} /\ pc[t] = "done"
        /\ \A i \in 1..Len(reglog) : reglog[i].tracked
        /\ seen[t] \notin StartedSeqs
        /\ Len(targets[t]) = 2
        /\ targets[t][2] = seen[t][Len(seen[t])]
        /\ NoDuplicates(seen[t])

\* the references of list that a broadcast to target_class is meant for
MeantFor(target_class, list) ==
    CASE target_class.kind = "str" ->
             SelectSeq(list, LAMBDA r : ClassName(ActorClassOf(r)) = target_class.name)
      [] target_class.kind = "type" ->
             SelectSeq(list, LAMBDA r : IsSubtype(ActorClassOf(r), target_class.cls))
      [] OTHER -> list

\* C13: broadcast resolves its targets from the list it reads: with a class
\* name, the references whose class has that name; with a class, the
\* references of that class or of a subtype of it; without target_class, all
\* of them. tell is called on the resolved targets in their order and on no
\* other reference; when broadcast returns it has been called on all of them.
C13_TargetPrecedence ==
    \A t \in Threads :
        (op[t] = "broadcast" /\ pc[t] \in {"after", "done", "raised"}) =>
            /\ targets[t] = MeantFor(args[t].target_class, seen[t])
            /\ Len(told[t]) <= Len(targets[t])
            /\ \A i \in 1..Len(told[t]) : told[t][i].ref = targets[t][i]
            /\ pc[t] = "done" => Len(told[t]) = Len(targets[t])

\* a broadcast to the class name "Worker" has told the two references whose
\* class is named so, and not the one of class Helper, derived from Worker
C13_Witness ==
    \E t \in Threads :
        /\ op[t] = "broadcast" /\ pc[t] = "done"
        /\ args[t].target_class.kind = "str" /\ args[t].target_class.name = "Worker"
        /\ Len(seen[t]) = 3 /\ Len(told[t]) = 2
        /\ \E r \in Range(seen[t]) :
               /\ ClassName(ActorClassOf(r)) = "Helper"
               /\ \A i \in 1..Len(told[t]) : told[t][i].ref # r
               /\ r \in Range(get_by_class(seen[t], 2))

\* the thread's unregister call follows an unregister call it made on the same
\* reference, and the list was not changed between the two
SecondInSuccession(t) ==
    /\ prev[t].op = "unregister"
    /\ prev[t].actor_ref = args[t].actor_ref
    /\ seen[t] = prev[t].left

\* C14 (as stated): unregister never fails; when unregister(ref) returns, ref
\* is not in the list it leaves; and the second of two unregister(ref) calls
\* in succession leaves the list as the first left it.
C14_Original ==
    \A t \in Threads :
        op[t] = "unregister" =>
            /\ pc[t] # "raised"
            /\ pc[t] = "done" =>
                   /\ Count(left[t], args[t].actor_ref) = 0
                   /\ SecondInSuccession(t) => left[t] = prev[t].left

\* C14 (amended): unregister never fails and removes one occurrence of ref if
\* there is one. When ref was in the list at most once, ref is not in the list
\* unregister(ref) leaves, and the second of two unregister(ref) calls in
\* succession leaves the list as the first left it; when ref was in the list
\* k > 1 times, it still is k - 1 times in the list unregister(ref) leaves.
C14_IdempotentIfSingle ==
    \A t \in Threads :
        op[t] = "unregister" =>
            /\ pc[t] # "raised"
            /\ pc[t] = "done" =>
                   /\ Count(seen[t], args[t].actor_ref) <= 1 =>
                          Count(left[t], args[t].actor_ref) = 0
                   /\ Count(seen[t], args[t].actor_ref) > 1 =>
                          Count(left[t], args[t].actor_ref) = Count(seen[t], args[t].actor_ref) - 1
                   /\ (SecondInSuccession(t) /\ Count(prev[t].seen, args[t].actor_ref) <= 1) =>
                          left[t] = prev[t].left

\* the first call removed the reference, the second found nothing to remove
C14_Witness ==
    \E t \in Threads :
        /\ op[t] = "unregister" /\ pc[t] = "done"
        /\ SecondInSuccession(t)
        /\ Count(prev[t].seen, args[t].actor_ref) = 1
        /\ Len(prev[t].left) = Len(prev[t].seen) - 1
        /\ left[t] = prev[t].left
        /\ ~removed[t]

\* C15: stop_all ends with an exception exactly when one of its ref.stop
\* calls raised one, and then with that very exception (the ActorDeadError of
\* a dead actor, the Timeout of a blocking stop): no value stands in the
\* list for the failed stop, no stop is called after it, and stop_all does
\* not return a list.
C15_StopFailurePropagates ==
    \A t \in Threads :
        op[t] = "stop_all" =>
            /\ failure[t] # NoError <=> pc[t] = "raised"
            /\ pc[t] = "raised" =>
                   /\ exc[t] = failure[t]
                   /\ exc[t].kind \in {"ActorDeadError", "Timeout"}
                   /\ exc[t].ref = stops[t][Len(stops[t])]
                   /\ Len(results[t]) = Len(stops[t]) - 1
            /\ pc[t] = "done" =>
                   /\ exc[t] = NoError
                   /\ Len(results[t]) = Len(stops[t])

\* one stop_all met an actor that had died since it read the list, the other
\* gave up waiting for an actor
C15_Witness ==
    \E t, u \in Threads :
        /\ op[t] = "stop_all" /\ pc[t] = "raised" /\ exc[t].kind = "ActorDeadError"
        /\ op[u] = "stop_all" /\ pc[u] = "raised" /\ exc[u].kind = "Timeout"
        /\ Len(results[u]) > 0

\* C16: a thread in broadcast or stop_all holds the lock while it reads the
\* list and has then called nothing on a reference; from the first tell or
\* stop on, and while it waits for an actor to stop, it does not hold the lock.
C16_NoLockDuringCalls ==
    \A t \in Threads :
        op[t] \in {"broadcast", "stop_all"} =>
            /\ pc[t] = "locked" => (lock.owner = t /\ told[t] = <<>> /\ stops[t] = <<>>)
            /\ pc[t] \in {"after", "stop_wait"} => lock.owner # t
            /\ (told[t] # <<>> \/ stops[t] # <<>>) => lock.owner # t

\* one thread waits for an actor to stop, another is about to tell; nobody
\* holds the lock
C16_Witness ==
    \E t, u \in Threads :
        /\ op[t] = "stop_all" /\ pc[t] = "stop_wait"
        /\ op[u] = "broadcast" /\ pc[u] = "after" /\ told[u] # <<>>
        /\ lock.owner = NoThread

\* C17: a stop_all(block=True) that has been called ends, with its list or with
\* the failure of a stop, and every actor that was asked to stop unregisters
\* itself and stops, provided threads and actors keep running: nobody waits
\* for the lock for ever.
C17_NoDeadlock ==
    /\ \A t \in Threads :
          (op[t] = "stop_all" /\ args[t].block /\ pc[t] \in {"locked", "after", "stop_wait"})
              ~> (pc[t] \in {"done", "raised"})
    /\ \A r \in Refs : (actor[r] = "stopping") ~> (actor[r] = "dead")

\* stop_all(block=True) has returned the outcomes of three stops; the three
\* actors have unregistered themselves
C17_Witness ==
    \E t \in Threads :
        /\ op[t] = "stop_all" /\ args[t].block /\ args[t].timeout = None /\ pc[t] = "done"
        /\ Len(results[t]) = 3
        /\ actor_refs = <<>>
        /\ \A r \in Range(seen[t]) : actor[r] = "dead"

\* C18: stop_all calls stop on the entries of the one list it read at its
\* start, one call per entry, whatever has been unregistered or registered
\* since: never on a reference that was not in that list, on each reference
\* of it once, and when it returns, on all its entries, also on those no
\* longer tracked.
C18_OneSnapshot ==
    \A t \in Threads :
        (op[t] = "stop_all" /\ pc[t] \in {"after", "stop_wait", "done", "raised"}) =>
            /\ targets[t] = seen[t]
            /\ Len(stops[t]) <= Len(seen[t])
            /\ \A i \in 1..Len(stops[t]) : stops[t][i] = Reversed(seen[t])[i]
            /\ NoDuplicates(seen[t]) => NoDuplicates(stops[t])
            /\ pc[t] = "done" => \A r \in Refs : Count(stops[t], r) = Count(seen[t], r)

\* stop_all(block=True) has returned; a reference registered after it read the
\* list is tracked and was never asked to stop
C18_Witness ==
    \E t \in Threads :
        /\ op[t] = "stop_all" /\ args[t].block /\ pc[t] = "done"
        /\ Len(stops[t]) >= 2
        /\ \E r \in Range(actor_refs) :
               /\ r \notin Range(seen[t])
               /\ actor[r] = "alive"
        /\ \A r \in Range(seen[t]) : actor[r] = "dead" /\ r \notin Range(actor_refs)

\* the methods that only read the list
ReadingOps == {"get_all", "get_by_class", "get_by_class_name", "get_by_urn",
               "broadcast", "stop_all"}

\* thread t takes a step of the method it is in
Stepped(t) == pc[t] # "idle" /\ (pc'[t] # pc[t] \/ idx'[t] # idx[t])

\* C19: no step of get_all, get_by_class, get_by_class_name, get_by_urn,
\* broadcast or stop_all changes the list; whenever the list changes, a
\* register or unregister call has changed it, or an actor that was asked to
\* stop has unregistered itself.
C19_OnlyRegisterAndUnregister ==
    [][/\ \A t \in Threads :
             (op[t] \in ReadingOps /\ op'[t] = op[t] /\ Stepped(t)) => actor_refs' = actor_refs
       /\ actor_refs' # actor_refs =>
             \/ \E t \in Threads : /\ op[t] \in {"register", "unregister"}
                                   /\ pc[t] \in {"locked", "remove"} /\ pc'[t] = "done"
             \/ \E r \in Refs : /\ actor[r] = "stopping" /\ actor'[r] = "dead"
                                /\ pc' = pc
                                /\ Count(actor_refs', r) = Count(actor_refs, r) - 1]_vars

\* a stop_all and a broadcast have run; the list lacks exactly the references
\* whose actors have stopped and unregistered themselves
C19_Witness ==
    \E t, u \in Threads :
        /\ op[t] = "stop_all" /\ pc[t] = "done" /\ Len(seen[t]) >= 2
        /\ op[u] = "broadcast" /\ pc[u] = "after" /\ Len(told[u]) >= 1
        /\ actor_refs # seen[u]
        /\ \A r \in Range(seen[u]) : r \in Range(actor_refs) <=> actor[r] # "dead"

\* new is old with r put behind its last entry
AppendedTo(old, new, r) ==
    /\ Len(new) = Len(old) + 1
    /\ \A i \in 1..Len(old) : new[i] = old[i]
    /\ new[Len(new)] = r

\* new is old without the entry at position k
WithoutPosition(old, new, k) ==
    /\ Len(new) = Len(old) - 1
    /\ \A i \in 1..(k - 1) : new[i] = old[i]
    /\ \A i \in k..Len(new) : new[i] = old[i + 1]

\* C20: the step by which register(ref) changes the list puts ref behind the
\* last entry and leaves every entry before it where it was; the step by
\* which unregister(ref) changes the list of a tracked ref takes out the
\* first occurrence of ref and nothing else, the other entries keeping their
\* order, and the call ends normally with removed = True.
C20_FrameOfRegisterUnregister ==
    [][\A t \in Threads :
          /\ (op[t] = "register" /\ pc[t] = "locked" /\ pc'[t] # "locked") =>
                 /\ AppendedTo(actor_refs, actor_refs', args[t].actor_ref)
                 /\ pc'[t] = "done"
          /\ (op[t] = "unregister" /\ pc[t] = "remove" /\ pc'[t] # "remove"
               /\ Count(actor_refs, args[t].actor_ref) > 0) =>
                 /\ \E k \in 1..Len(actor_refs) :
                        /\ actor_refs[k] = args[t].actor_ref
                        /\ \A j \in 1..(k - 1) : actor_refs[j] # args[t].actor_ref
                        /\ WithoutPosition(actor_refs, actor_refs', k)
                 /\ pc'[t] = "done" /\ removed'[t]]_vars

\* unregister has taken the first of two occurrences out of a list of three
C20_Witness ==
    \E t \in Threads :
        /\ op[t] = "unregister" /\ pc[t] = "done" /\ removed[t]
        /\ Len(seen[t]) = 3
        /\ Count(seen[t], args[t].actor_ref) = 2
        /\ seen[t][1] = args[t].actor_ref /\ seen[t][3] = args[t].actor_ref
        /\ left[t] = <<seen[t][2], seen[t][3]>>

====
